---- MODULE Spec2Model ----
(***************************************************************************)
(* Claude-Rock: the chat view (ChatView.ts), the plugin's session store    *)
(* (main.ts) and the session process registry (ClaudeService) as one state *)
(* machine.  Event handlers run to completion: the listeners of an event   *)
(* run synchronously inside the step that emits it.                        *)
(***************************************************************************)
EXTENDS Integers, Sequences, FiniteSets, TLC

VARIABLES plugin, view, service, inflight, ghost

vars == <<plugin, view, service, inflight, ghost>>

----------------------------------------------------------------------------
(* Bounds of the model *)

MaxSends == 2
MaxSwitches == 2
MaxCompacts == 1
MaxChunks == 1
MaxTools == 1
\* Sessions created in the store, and sessions deleted or rewritten there.
MaxCreates == 2
MaxEdits == 1
MaxBlocks == 3
MaxBoundaries == 1

----------------------------------------------------------------------------
(* Identifiers *)

NoSid == 0
SIDs == {1, 2}
SumBase == 100
\* SumBase itself names a compaction run under way in the initial state.
SumIds == {SumBase + i : i \in 0..MaxCompacts}
Ids == SIDs \cup SumIds

NoCli == 0
CliToken(id) == 10 + id

Chunk(id, j) == 10 * id + j
Tool(id, j) == 10 * id + j
PromptBase == 1000

----------------------------------------------------------------------------
(* Program constants *)

MAX_SESSIONS == 20
CONTEXT_LIMIT == 80000
AUTO_COMPACT_THRESHOLD_PERCENT == 85
NOMINAL_WINDOW == 200000

----------------------------------------------------------------------------
(* Token statistics *)

initialTokenStats ==
    [inputTokens |-> 0, outputTokens |-> 0, contextWindow |-> NOMINAL_WINDOW,
     cacheReadTokens |-> 0, compactCount |-> 0, lastCompactPreTokens |-> 0]

Min(a, b) == IF a <= b THEN a ELSE b

\* Used totals whose double (used / 80000) * 100 falls just below k + 0.5
\* although the exact quotient is k + 0.5; Math.round rounds these down.
DoubleBelowTie == {11600, 22800, 45200, 46000}

\* Math.round(x) for x = used * 100 / CONTEXT_LIMIT: floor(x + 0.5).
RoundPercent(used) ==
    LET exact == (2 * 100 * used + CONTEXT_LIMIT) \div (2 * CONTEXT_LIMIT)
    IN  IF used \in DoubleBelowTie THEN exact - 1 ELSE exact

\* The percentage without Math.min.
calculateContextUsageUnclamped(stats) ==
    LET usedTokens == stats.inputTokens + stats.outputTokens
    IN  [used |-> usedTokens, limit |-> CONTEXT_LIMIT,
         nominal |-> stats.contextWindow, percentage |-> RoundPercent(usedTokens)]

calculateContextUsage(stats) ==
    LET usedTokens == stats.inputTokens + stats.outputTokens
        percentage == IF usedTokens >= CONTEXT_LIMIT THEN 100
                      ELSE RoundPercent(usedTokens)
    IN  [used |-> usedTokens, limit |-> CONTEXT_LIMIT,
         nominal |-> stats.contextWindow, percentage |-> percentage]

\* The usage counters a result record may carry.
NoUsage == [present |-> FALSE, input |-> 0, output |-> 0, cache |-> 0]
Usage(i, o, c) == [present |-> TRUE, input |-> i, output |-> o, cache |-> c]
MainUsage == {Usage(40000, 5200, 0), Usage(60000, 8000, 0)}
UsageSet ==
    { NoUsage,
      Usage(40000, 5200, 0),
      Usage(60000, 7599, 100),
      Usage(60000, 7600, 0),
      Usage(60000, 8000, 0),
      Usage(75000, 9000, 100) }

----------------------------------------------------------------------------
(* Messages *)

UserMsg(pid) == [role |-> "user", content |-> <<pid>>, thinkingSteps |-> <<>>]
AssistantMsg(text, steps) ==
    [role |-> "assistant", content |-> text, thinkingSteps |-> steps]

----------------------------------------------------------------------------
(* The plugin's session store (main.ts) *)

NewSession(id) ==
    [id |-> id, cliSessionId |-> NoCli, messages |-> <<>>, model |-> "none",
     hasTokenStats |-> FALSE, tokenStats |-> initialTokenStats]

SessionIndex(p, id) ==
    IF \E i \in 1..Len(p.sessions) : p.sessions[i].id = id
    THEN CHOOSE i \in 1..Len(p.sessions) : p.sessions[i].id = id
    ELSE 0

HasSession(p, id) == SessionIndex(p, id) # 0
FindSession(p, id) == p.sessions[SessionIndex(p, id)]

SetSession(p, id, s) ==
    [p EXCEPT !.sessions = [p.sessions EXCEPT ![SessionIndex(p, id)] = s]]

Take(seq, n) == SubSeq(seq, 1, Min(n, Len(seq)))

\* A save that writes the sessions without their messages.
saveSettingsWithoutMessages(p) ==
    [p EXCEPT !.persisted =
        [sessions |-> [i \in 1..Min(MAX_SESSIONS, Len(p.sessions)) |->
                          [p.sessions[i] EXCEPT !.messages = <<>>]],
         currentSessionId |-> p.currentSessionId,
         tokenHistory |-> p.tokenHistory]]

saveSettings(p) ==
    [p EXCEPT !.persisted = [sessions |-> Take(p.sessions, MAX_SESSIONS),
                             currentSessionId |-> p.currentSessionId,
                             tokenHistory |-> p.tokenHistory]]

HasCurrentSession(p) == p.currentSessionId # NoSid /\ HasSession(p, p.currentSessionId)
getCurrentSession(p) == FindSession(p, p.currentSessionId)

switchToSession(p, id) ==
    IF HasSession(p, id) THEN saveSettings([p EXCEPT !.currentSessionId = id])
    ELSE p

updateCurrentSession(p, messages, cliSessionId, tokenStats) ==
    IF HasCurrentSession(p)
    THEN saveSettings(SetSession(p, p.currentSessionId,
            [getCurrentSession(p) EXCEPT !.messages = messages,
                                         !.cliSessionId = cliSessionId,
                                         !.hasTokenStats = TRUE,
                                         !.tokenStats = tokenStats]))
    ELSE p

addTokensToHistory(p, tokens) ==
    IF tokens <= 0 THEN p
    ELSE saveSettings([p EXCEPT !.tokenHistory = @ + tokens])

----------------------------------------------------------------------------
(* The session process registry (ClaudeService) *)

isRunning(svc, id) == svc.phase[id] # "idle"

getCliSessionId(svc, id) == svc.cliSessionId[id]

getPendingMessage(svc, id) == [text |-> svc.pendingText[id], tools |-> svc.pendingTools[id]]

clearPendingMessage(svc, id) ==
    [svc EXCEPT !.pendingText[id] = <<>>, !.pendingTools[id] = <<>>]

clearSession(svc, id) == [svc EXCEPT !.cliSessionId[id] = NoCli]

\* A prompt: the text the user typed and the summary prepended to it.
Prompt(pid, summary) == [pid |-> pid, summary |-> summary]

\* The prompt, resume token and model a process was spawned with.
NoSpawn == [prompt |-> Prompt(0, <<>>), resume |-> NoCli, model |-> "none"]

\* Spawns the process if none is running for the session id.
serviceSendMessage(svc, prompt, id, resumeToken, model) ==
    IF isRunning(svc, id) THEN svc
    ELSE [svc EXCEPT !.phase[id] = "spawned",
                     !.pendingText[id] = <<>>,
                     !.pendingTools[id] = <<>>,
                     !.spawn[id] = [prompt |-> prompt, resume |-> resumeToken,
                                    model |-> model]]

----------------------------------------------------------------------------
(* The chat view (ChatView.ts).  Operators take and return the world       *)
(* w = [plugin, view, service].  view.msgAlias names the session whose     *)
(* messages array is the very array view.messages refers to (NoSid when    *)
(* the view holds its own copy); view.statsAlias likewise for tokenStats.  *)

World(p, v, s) == [plugin |-> p, view |-> v, service |-> s]

\* this.messages.push(m)
PushViewMessage(w, m) ==
    LET msgs == Append(w.view.messages, m)
        a == w.view.msgAlias
        p1 == IF a # NoSid /\ HasSession(w.plugin, a)
              THEN SetSession(w.plugin, a, [FindSession(w.plugin, a) EXCEPT !.messages = msgs])
              ELSE w.plugin
    IN  [w EXCEPT !.view.messages = msgs, !.plugin = p1]

\* session.messages.push(m)
PushSessionMessage(w, id, m) ==
    LET msgs == Append(FindSession(w.plugin, id).messages, m)
        p1 == SetSession(w.plugin, id, [FindSession(w.plugin, id) EXCEPT !.messages = msgs])
    IN  [w EXCEPT !.plugin = p1,
                  !.view.messages = IF w.view.msgAlias = id THEN msgs ELSE @]

\* Assignment to the fields of session.tokenStats (in place).
WriteSessionStats(w, id, stats) ==
    LET p1 == SetSession(w.plugin, id,
                 [FindSession(w.plugin, id) EXCEPT !.hasTokenStats = TRUE,
                                                   !.tokenStats = stats])
    IN  [w EXCEPT !.plugin = p1,
                  !.view.tokenStats = IF w.view.statsAlias = id THEN stats ELSE @]

setInputEnabled(w, enabled) == [w EXCEPT !.view.isGenerating = ~enabled]

saveCurrentSession(w) ==
    IF HasCurrentSession(w.plugin)
    THEN LET cur == w.plugin.currentSessionId
             cli == getCliSessionId(w.service, cur)
         IN  [w EXCEPT !.plugin = updateCurrentSession(w.plugin, w.view.messages,
                                                       cli, w.view.tokenStats),
                       !.view.msgAlias = cur,
                       !.view.statsAlias = cur]
    ELSE w

loadSession(w, id) ==
    LET session == FindSession(w.plugin, id)
        stats == IF session.hasTokenStats THEN session.tokenStats ELSE initialTokenStats
    IN  [w EXCEPT !.view.activeSessionId = id,
                  !.view.messages = session.messages,
                  !.view.msgAlias = NoSid,
                  !.view.tokenStats = stats,
                  !.view.statsAlias = IF session.hasTokenStats THEN id ELSE NoSid,
                  !.view.lastRecordedTokens = stats.inputTokens + stats.outputTokens,
                  !.view.sessionStarted = (Len(session.messages) > 0),
                  !.view.currentModel = IF session.model # "none" THEN session.model
                                        ELSE w.plugin.defaultModel]

selectSession(w, id) ==
    IF HasSession(w.plugin, id)
    THEN loadSession([w EXCEPT !.plugin = switchToSession(w.plugin, id)], id)
    ELSE w

selectModel(w, model) == [w EXCEPT !.view.currentModel = model]

addUserMessage(w, pid) == PushViewMessage(w, UserMsg(pid))

prepareAssistantMessage(w) ==
    [w EXCEPT !.view.currentAssistantContent = <<>>,
              !.view.hasReceivedText = FALSE,
              !.view.currentAssistantMessage = FALSE,
              !.view.currentMessageThinkingSteps = <<>>]

saveToolStepsAsMessage(w) ==
    IF Len(w.view.currentMessageThinkingSteps) = 0 THEN w
    ELSE LET w1 == PushViewMessage(w, AssistantMsg(<<>>, w.view.currentMessageThinkingSteps))
         IN  saveCurrentSession([w1 EXCEPT !.view.currentMessageThinkingSteps = <<>>])

saveTextAsMessage(w) ==
    IF Len(w.view.currentAssistantContent) = 0 THEN w
    ELSE LET w1 == PushViewMessage([w EXCEPT !.view.currentAssistantMessage = FALSE],
                                   AssistantMsg(w.view.currentAssistantContent, <<>>))
         IN  saveCurrentSession([w1 EXCEPT !.view.currentAssistantContent = <<>>,
                                           !.view.hasReceivedText = FALSE])

updateAssistantMessage(w, fullText) ==
    LET w1 == IF ~w.view.hasReceivedText /\ Len(fullText) > 0
              THEN LET w0 == IF Len(w.view.currentMessageThinkingSteps) > 0
                             THEN saveToolStepsAsMessage(w) ELSE w
                   IN  [w0 EXCEPT !.view.hasReceivedText = TRUE,
                                  !.view.currentAssistantMessage = TRUE]
              ELSE w
    IN  IF ~w1.view.currentAssistantMessage THEN w1
        ELSE [w1 EXCEPT !.view.currentAssistantContent = fullText]

addToolStep(w, tool) ==
    LET w1 == IF w.view.hasReceivedText
              THEN [saveTextAsMessage(w) EXCEPT !.view.hasReceivedText = FALSE]
              ELSE w
    IN  [w1 EXCEPT !.view.currentMessageThinkingSteps = Append(@, tool)]

finalizeAssistantMessage(w) ==
    LET hasContent == Len(w.view.currentAssistantContent) > 0
        hasToolSteps == Len(w.view.currentMessageThinkingSteps) > 0
        w1 == IF hasContent \/ hasToolSteps
              THEN saveCurrentSession(
                     PushViewMessage(w, AssistantMsg(w.view.currentAssistantContent,
                                                     w.view.currentMessageThinkingSteps)))
              ELSE w
    IN  [w1 EXCEPT !.view.currentAssistantMessage = FALSE,
                   !.view.currentAssistantContent = <<>>,
                   !.view.hasReceivedText = FALSE,
                   !.view.currentMessageThinkingSteps = <<>>]

\* The pending flag is raised on the rounded percentage of the view's stats.
shouldAutoCompact(stats, pendingAutoCompact) ==
    calculateContextUsage(stats).percentage >= AUTO_COMPACT_THRESHOLD_PERCENT
        /\ ~pendingAutoCompact

\* The summary id crypto.randomUUID() yields for the next compaction run.
NextSummaryId(w) == SumBase + w.view.summaryCount + 1

\* A compaction that also skips a list of one message.
runCompactSkippingSingle(w) ==
    IF Len(w.view.messages) <= 1 THEN w
    ELSE LET x == NextSummaryId(w)
             w1 == setInputEnabled(w, FALSE)
         IN  [w1 EXCEPT !.view.summaryCount = @ + 1,
                        !.view.compactRuns[x] =
                            [streaming |-> TRUE, complete |-> TRUE, summary |-> <<>>],
                        !.service = serviceSendMessage(w1.service, Prompt(0, <<>>), x,
                                                       NoCli, w1.view.currentModel)]

runCompact(w) ==
    IF Len(w.view.messages) = 0 THEN w
    ELSE LET x == NextSummaryId(w)
             w1 == setInputEnabled(w, FALSE)
         IN  [w1 EXCEPT !.view.summaryCount = @ + 1,
                        !.view.compactRuns[x] =
                            [streaming |-> TRUE, complete |-> TRUE, summary |-> <<>>],
                        !.service = serviceSendMessage(w1.service, Prompt(0, <<>>), x,
                                                       NoCli, w1.view.currentModel)]

\* runCompact past its check of the message list, with summary id x.
startCompact(w, x) ==
    LET w1 == setInputEnabled(w, FALSE)
    IN  [w1 EXCEPT !.view.compactRuns[x] =
                       [streaming |-> TRUE, complete |-> TRUE, summary |-> <<>>],
                   !.service = serviceSendMessage(w1.service, Prompt(0, <<>>), x,
                                                  NoCli, w1.view.currentModel)]

\* A completion that replaces the history by the summary.
finishCompactDroppingHistory(w, summary) ==
    [setInputEnabled(w, TRUE) EXCEPT
        !.view.messages = <<>>,
        !.view.compactSummary = [has |-> TRUE, text |-> summary]]

finishCompact(w, summary) ==
    LET w1 == setInputEnabled(w, TRUE)
        w2 == IF HasCurrentSession(w1.plugin)
              THEN LET cur == w1.plugin.currentSessionId
                       p1 == SetSession(w1.plugin, cur,
                                [getCurrentSession(w1.plugin) EXCEPT !.cliSessionId = NoCli])
                   IN  [w1 EXCEPT !.plugin = saveSettings(p1),
                                  !.service = clearSession(w1.service, cur),
                                  !.view.compactSummary = [has |-> TRUE, text |-> summary],
                                  !.view.sessionStarted = FALSE]
              ELSE w1
    IN  [w2 EXCEPT !.view.tokenStats =
                       [initialTokenStats EXCEPT !.compactCount =
                                                     w2.view.tokenStats.compactCount + 1],
                   !.view.statsAlias = NoSid]

----------------------------------------------------------------------------
(* Event handlers of setupServiceListeners and of runCompact *)

Ev(type, sid, text, tool, usage, isError, code) ==
    [type |-> type, sid |-> sid, text |-> text, tool |-> tool, usage |-> usage,
     isError |-> isError, code |-> code]

onStreamingMain(w, e) ==
    IF e.sid # w.view.activeSessionId THEN w ELSE updateAssistantMessage(w, e.text)

\* runCompact's onStreaming: summary += event.text
onStreamingCompact(w, e) ==
    IF e.sid \in SumIds /\ w.view.compactRuns[e.sid].streaming
    THEN [w EXCEPT !.view.compactRuns[e.sid].summary = @ \o e.text]
    ELSE w

onToolUse(w, e) ==
    IF e.sid # w.view.activeSessionId THEN w ELSE addToolStep(w, e.tool)

\* The counters summed across updates instead of replaced.
ApplyUsageSummed(stats, usage) ==
    [stats EXCEPT !.inputTokens = @ + usage.input,
                  !.outputTokens = @ + usage.output,
                  !.contextWindow = NOMINAL_WINDOW,
                  !.cacheReadTokens = @ + usage.cache]

\* The assignments of the contextUpdate handler to session.tokenStats.
ApplyUsage(stats, usage) ==
    [stats EXCEPT !.inputTokens = usage.input,
                  !.outputTokens = usage.output,
                  !.contextWindow = NOMINAL_WINDOW,
                  !.cacheReadTokens = usage.cache]

onContextUpdate(w, e) ==
    LET isActiveSession == e.sid = w.view.activeSessionId
    IN  IF ~(e.usage.present /\ HasSession(w.plugin, e.sid)) THEN w
        ELSE
          LET session == FindSession(w.plugin, e.sid)
              old == IF session.hasTokenStats THEN session.tokenStats
                     ELSE initialTokenStats
              stats == ApplyUsage(old, e.usage)
              w1 == WriteSessionStats(w, e.sid, stats)
              currentTotal == stats.inputTokens + stats.outputTokens
              delta == currentTotal - w1.view.lastRecordedTokens
              w2 == IF isActiveSession /\ delta > 0
                    THEN [w1 EXCEPT !.plugin = addTokensToHistory(w1.plugin, delta),
                                    !.view.lastRecordedTokens = currentTotal]
                    ELSE w1
              w3 == [w2 EXCEPT !.plugin = saveSettings(w2.plugin)]
          IN  IF ~isActiveSession THEN w3
              ELSE [w3 EXCEPT !.view.tokenStats = stats,
                              !.view.statsAlias = e.sid,
                              !.view.pendingAutoCompact =
                                  @ \/ shouldAutoCompact(stats, @)]

onResult(w, e) ==
    LET isActiveSession == e.sid = w.view.activeSessionId
        pending == getPendingMessage(w.service, e.sid)
        w1 == IF HasSession(w.plugin, e.sid) /\ Len(pending.text) > 0
              THEN LET wa == PushSessionMessage(w, e.sid,
                                 AssistantMsg(pending.text, pending.tools))
                       cli == getCliSessionId(wa.service, e.sid)
                       pa == IF cli # NoCli
                             THEN SetSession(wa.plugin, e.sid,
                                    [FindSession(wa.plugin, e.sid) EXCEPT !.cliSessionId = cli])
                             ELSE wa.plugin
                   IN  [wa EXCEPT !.plugin = saveSettings(pa),
                                  !.service = clearPendingMessage(wa.service, e.sid)]
              ELSE w
    IN  IF isActiveSession THEN finalizeAssistantMessage(w1) ELSE w1

handleRateLimitError(w) == setInputEnabled(finalizeAssistantMessage(w), TRUE)

onRateLimitError(w, e) ==
    IF e.sid # w.view.activeSessionId THEN w ELSE handleRateLimitError(w)

CompactEv(sid, preTokens) == [type |-> "compact", sid |-> sid, preTokens |-> preTokens]

\* compactCount++ and lastCompactPreTokens = event.preTokens on a stats object.
CountCompact(stats, preTokens) ==
    [stats EXCEPT !.compactCount = @ + 1, !.lastCompactPreTokens = preTokens]

\* The compact handler: the session's object is counted up, then, for the
\* displayed session, the view's object, which may be the same object.
onCompact(w, e) ==
    LET isActiveSession == e.sid = w.view.activeSessionId
        w1 == IF HasSession(w.plugin, e.sid)
              THEN LET session == FindSession(w.plugin, e.sid)
                       old == IF session.hasTokenStats THEN session.tokenStats
                              ELSE initialTokenStats
                       wa == WriteSessionStats(w, e.sid, CountCompact(old, e.preTokens))
                   IN  [wa EXCEPT !.plugin = saveSettings(wa.plugin)]
              ELSE w
    IN  IF ~isActiveSession THEN w1
        ELSE LET stats == CountCompact(w1.view.tokenStats, e.preTokens)
             IN  IF w1.view.statsAlias # NoSid
                 THEN WriteSessionStats(w1, w1.view.statsAlias, stats)
                 ELSE [w1 EXCEPT !.view.tokenStats = stats]

\* TRUE when the complete handler will call runCompact for the pending flag.
AutoCompactDue(w, e) ==
    e.sid = w.view.activeSessionId /\ w.view.pendingAutoCompact

onCompleteMain(w, e) ==
    IF e.sid # w.view.activeSessionId THEN w
    ELSE LET w1 == setInputEnabled(finalizeAssistantMessage(w), TRUE)
         IN  IF w1.view.pendingAutoCompact
             THEN runCompact([w1 EXCEPT !.view.pendingAutoCompact = FALSE])
             ELSE w1

\* runCompact's onComplete: stop collecting, then finishCompact(summary)
onCompleteCompact(w, e) ==
    IF e.sid \in SumIds /\ w.view.compactRuns[e.sid].complete
    THEN finishCompact([w EXCEPT !.view.compactRuns[e.sid].streaming = FALSE],
                       w.view.compactRuns[e.sid].summary)
    ELSE w

----------------------------------------------------------------------------
(* sendMessage of the view: the part before the first await, and the part  *)
(* after it.  A continuation keeps the locals captured before the await.   *)

CanSend(w) ==
    HasCurrentSession(w.plugin) /\ ~isRunning(w.service, w.plugin.currentSessionId)

sendMessageBegin(w, pid) ==
    prepareAssistantMessage(setInputEnabled(addUserMessage(w, pid), FALSE))

Continuation(w, pid) ==
    [sid |-> w.plugin.currentSessionId,
     isFirstMessage |-> (Len(w.view.messages) = 0),
     pid |-> pid]

sendMessageFinish(w, c) ==
    LET useSummary == c.isFirstMessage /\ w.view.compactSummary.has
                         /\ Len(w.view.compactSummary.text) > 0
        w1 == IF useSummary
              THEN [w EXCEPT !.view.compactSummary = [has |-> FALSE, text |-> <<>>]]
              ELSE w
        fromService == getCliSessionId(w1.service, c.sid)
        cliSessionId == IF fromService # NoCli THEN fromService
                        ELSE IF HasSession(w1.plugin, c.sid)
                             THEN FindSession(w1.plugin, c.sid).cliSessionId
                             ELSE NoCli
        w2 == IF ~w1.view.sessionStarted
              THEN [w1 EXCEPT !.view.sessionStarted = TRUE,
                              !.plugin =
                                  IF HasSession(w1.plugin, c.sid)
                                  THEN saveSettings(SetSession(w1.plugin, c.sid,
                                         [FindSession(w1.plugin, c.sid)
                                              EXCEPT !.model = w1.view.currentModel]))
                                  ELSE saveSettings(w1.plugin)]
              ELSE w1
        fullPrompt == Prompt(c.pid, IF useSummary THEN w.view.compactSummary.text
                                    ELSE <<>>)
    IN  [w2 EXCEPT !.service = serviceSendMessage(w2.service, fullPrompt, c.sid,
                                                  cliSessionId, w2.view.currentModel)]

----------------------------------------------------------------------------
(* Observation variables: the turn each session has in flight, who         *)
(* disabled the input last and whose update raised the pending flag        *)

NoTurn == [pid |-> 0, away |-> FALSE, text |-> <<>>, tools |-> <<>>]

SessionMessages(p, id) == IF HasSession(p, id) THEN FindSession(p, id).messages ELSE <<>>

InFlight(id) == isRunning(service, id) \/ \E c \in inflight : c.sid = id

W == World(plugin, view, service)

SetWorld(w) == plugin' = w.plugin /\ view' = w.view /\ service' = w.service

----------------------------------------------------------------------------
(* Initial state: two empty chats, the first one displayed *)

InitPlugin ==
    saveSettings([sessions |-> <<NewSession(1), NewSession(2)>>,
                  currentSessionId |-> 1,
                  defaultModel |-> "sonnet",
                  tokenHistory |-> 0,
                  persisted |-> [sessions |-> <<>>, currentSessionId |-> NoSid,
                                 tokenHistory |-> 0]])

InitView ==
    [messages |-> <<>>, msgAlias |-> NoSid,
     tokenStats |-> initialTokenStats, statsAlias |-> NoSid,
     currentAssistantContent |-> <<>>, hasReceivedText |-> FALSE,
     currentAssistantMessage |-> FALSE, currentMessageThinkingSteps |-> <<>>,
     isGenerating |-> FALSE, activeSessionId |-> NoSid,
     currentModel |-> "sonnet", sessionStarted |-> FALSE,
     pendingAutoCompact |-> FALSE,
     compactSummary |-> [has |-> FALSE, text |-> <<>>],
     lastRecordedTokens |-> 0,
     summaryCount |-> 0,
     compactRuns |-> [x \in SumIds |->
                         [streaming |-> FALSE, complete |-> FALSE, summary |-> <<>>]]]

InitService ==
    [phase |-> [id \in Ids |-> "idle"],
     pendingText |-> [id \in Ids |-> <<>>],
     pendingTools |-> [id \in Ids |-> <<>>],
     cliSessionId |-> [id \in Ids |-> NoCli],
     spawn |-> [id \in Ids |-> NoSpawn]]

\* What the view hands to updateCurrentSession after a turn with a tool step.
TurnMessages(id) ==
    <<UserMsg(PromptBase + id), AssistantMsg(<<Chunk(id, 1)>>, <<Tool(id, 1)>>)>>

TurnStats == ApplyUsage(initialTokenStats, Usage(40000, 5200, 0))

InitGhost ==
    [sends |-> 0, switches |-> 0,
     turn |-> [s \in SIDs |-> NoTurn],
     updates |-> [s \in SIDs |-> 0],
     compactOf |-> [x \in SumIds |-> NoSid],
     owed |-> [s \in SIDs |-> <<>>],
     disabledBy |-> NoSid,
     flaggedBy |-> NoSid,
     created |-> 0, edits |-> 0, fresh |-> 0, boundaries |-> 0,
     blocks |-> [id \in Ids |-> <<>>]]

Init ==
    LET w == loadSession(World(InitPlugin, InitView, InitService), 1)
    IN  /\ plugin = w.plugin
        /\ view = w.view
        /\ service = w.service
        /\ inflight = {}
        /\ ghost = InitGhost

----------------------------------------------------------------------------
(* User commands *)

\* The text the user types: a fresh prompt of the displayed session.
NewPid(id) ==
    IF ghost.turn[id].pid = 0 THEN PromptBase + 10 * id + 1 ELSE ghost.turn[id].pid + 1

\* Enter key and send button send only when input is enabled; a slash
\* command picked from the autocomplete, sendWithCommand and
\* sendWithDifficulty call sendMessage directly.
SendAllowed(kind) ==
    kind \in {"enter", "button"} => ~view.isGenerating

\* sendMessage up to the await of the active note's content.
SendMessageBegin(kind) ==
    /\ ghost.sends < MaxSends
    /\ SendAllowed(kind)
    /\ CanSend(W)
    /\ LET pid == NewPid(plugin.currentSessionId)
           c == Continuation(W, pid)
           w == sendMessageBegin(W, pid)
       IN  /\ SetWorld(w)
           /\ inflight' = inflight \cup {c}
           /\ ghost' = [ghost EXCEPT !.sends = @ + 1,
                                     !.turn[c.sid] = [NoTurn EXCEPT !.pid = pid],
                                     !.disabledBy = c.sid]

\* sendMessage after the await.
SendMessageResume(c) ==
    /\ c \in inflight
    /\ SetWorld(sendMessageFinish(W, c))
    /\ inflight' = inflight \ {c}
    /\ ghost' = [ghost EXCEPT !.owed[c.sid] = IF isRunning(service, c.sid) THEN @
                                              ELSE <<>>]

SelectSession(id) ==
    /\ ghost.switches < MaxSwitches
    /\ HasSession(plugin, id)
    /\ SetWorld(selectSession(W, id))
    /\ ghost' = [ghost EXCEPT !.switches = @ + 1]
    /\ UNCHANGED inflight

\* The summary button of the context popup.
RunCompactManual ==
    /\ view.summaryCount < MaxCompacts
    /\ Len(view.messages) > 0
    /\ SetWorld(runCompact(W))
    /\ ghost' = [ghost EXCEPT !.disabledBy = NoSid,
                              !.compactOf[NextSummaryId(W)] = view.activeSessionId]
    /\ UNCHANGED inflight

\* A model picked from the popup of the model indicator.
SelectModel(model) ==
    /\ model # view.currentModel
    /\ SetWorld(selectModel(W, model))
    /\ UNCHANGED <<inflight, ghost>>

----------------------------------------------------------------------------
(* The agent processes.  A record decoded from a process's output is       *)
(* emitted synchronously: the listeners of the view run, in subscription   *)
(* order, before anything else does.                                       *)

\* system/init record: the registry learns the resume token.
ProcInit(id) ==
    /\ service.phase[id] = "spawned"
    /\ service' = [service EXCEPT !.phase[id] = "run",
                                  !.cliSessionId[id] = CliToken(id)]
    /\ UNCHANGED <<plugin, view, inflight, ghost>>

\* tool_use block: accumulated, then ToolUse is emitted.
ProcToolUse(id) ==
    /\ service.phase[id] = "run"
    /\ Len(service.pendingTools[id]) < MaxTools
    /\ LET tool == Tool(id, Len(service.pendingTools[id]) + 1)
           svc == [service EXCEPT !.pendingTools[id] = Append(@, tool)]
           e == Ev("toolUse", id, <<>>, tool, NoUsage, FALSE, 0)
       IN  SetWorld(onToolUse(World(plugin, view, svc), e))
    /\ UNCHANGED <<inflight, ghost>>

\* text block: accumulated, then Streaming is emitted with the text so far.
ProcText(id) ==
    /\ service.phase[id] = "run"
    /\ Len(service.pendingText[id]) < MaxChunks
    /\ LET text == Append(service.pendingText[id],
                          Chunk(id, Len(service.pendingText[id]) + 1))
           svc == [service EXCEPT !.pendingText[id] = text]
           e == Ev("streaming", id, text, 0, NoUsage, FALSE, 0)
       IN  SetWorld(onStreamingCompact(onStreamingMain(World(plugin, view, svc), e), e))
    /\ UNCHANGED <<inflight, ghost>>

\* The world after the ContextUpdate a result record emits first.
AfterContextUpdate(id, usage) ==
    LET svc == [service EXCEPT !.phase[id] = "resulted"]
    IN  onContextUpdate(World(plugin, view, svc),
                        Ev("contextUpdate", id, <<>>, 0, usage, FALSE, 0))

\* result record: ContextUpdate is emitted, then Result.
ProcResult(id, usage) ==
    /\ service.phase[id] = "run"
    /\ LET w1 == AfterContextUpdate(id, usage)
           w2 == onResult(w1, Ev("result", id, <<>>, 0, usage, FALSE, 0))
           flagged == w1.view.pendingAutoCompact /\ ~view.pendingAutoCompact
           away == id # view.activeSessionId
           pending == getPendingMessage(service, id)
       IN  /\ SetWorld(w2)
           /\ ghost' = [ghost EXCEPT
                  !.flaggedBy = IF flagged THEN id ELSE @,
                  !.updates[id] = IF usage.present /\ HasSession(plugin, id)
                                  THEN @ + 1 ELSE @,
                  !.turn[id].away = away,
                  !.turn[id].text = IF away THEN pending.text ELSE <<>>,
                  !.turn[id].tools = IF away THEN pending.tools ELSE <<>>]
    /\ UNCHANGED inflight

\* The process closes: the registry forgets it, then Complete is emitted.
ProcExit(id, code) ==
    /\ service.phase[id] # "idle"
    /\ LET svc == [service EXCEPT !.phase[id] = "idle",
                                  !.pendingText[id] = <<>>,
                                  !.pendingTools[id] = <<>>,
                                  !.spawn[id] = NoSpawn]
           e == Ev("complete", id, <<>>, 0, NoUsage, FALSE, code)
           due == AutoCompactDue(W, e)
           w == onCompleteCompact(onCompleteMain(World(plugin, view, svc), e), e)
           started == w.view.summaryCount # view.summaryCount
           finished == id \in SumIds /\ view.compactRuns[id].complete
       IN  /\ due => view.summaryCount < MaxCompacts
           /\ SetWorld(w)
           /\ ghost' = [ghost EXCEPT
                  !.flaggedBy = IF due THEN NoSid ELSE @,
                  !.blocks[id] = <<>>,
                  !.disabledBy = IF id = @ \/ started \/ id \in SumIds
                                 THEN NoSid ELSE @,
                  !.compactOf = IF started
                                THEN [@ EXCEPT ![NextSummaryId(W)] = view.activeSessionId]
                                ELSE IF finished THEN [@ EXCEPT ![id] = NoSid]
                                ELSE @,
                  !.owed = IF finished /\ ghost.compactOf[id] \in SIDs
                           THEN [@ EXCEPT ![ghost.compactOf[id]] =
                                              view.compactRuns[id].summary]
                           ELSE @]
    /\ UNCHANGED inflight

\* One content block of an assistant record: a tool_use block is appended
\* to the pending tool list and ToolUse is emitted; a text block is appended
\* to the pending text and Streaming is emitted with the text so far.
decodeBlock(w, id, block) ==
    IF block = "tool_use"
    THEN LET tool == Tool(id, Len(w.service.pendingTools[id]) + 1)
             w1 == [w EXCEPT !.service.pendingTools[id] = Append(@, tool)]
         IN  onToolUse(w1, Ev("toolUse", id, <<>>, tool, NoUsage, FALSE, 0))
    ELSE LET text == Append(w.service.pendingText[id],
                            Chunk(id, Len(w.service.pendingText[id]) + 1))
             w1 == [w EXCEPT !.service.pendingText[id] = text]
             e == Ev("streaming", id, text, 0, NoUsage, FALSE, 0)
         IN  onStreamingCompact(onStreamingMain(w1, e), e)

\* The content blocks of a record are decoded in their order.
RECURSIVE decodeBlocks(_, _, _)
decodeBlocks(w, id, blocks) ==
    IF blocks = <<>> THEN w
    ELSE decodeBlocks(decodeBlock(w, id, Head(blocks)), id, Tail(blocks))

BlockLists ==
    UNION {[1..n -> {"tool_use", "text"}] : n \in 1..MaxBlocks}

\* assistant record: the one record of the turn, with its content blocks.
ProcRecord(id, blocks) ==
    /\ service.phase[id] = "run"
    /\ service.pendingText[id] = <<>>
    /\ service.pendingTools[id] = <<>>
    /\ SetWorld(decodeBlocks(W, id, blocks))
    /\ ghost' = [ghost EXCEPT !.blocks[id] = blocks]
    /\ UNCHANGED inflight

\* result record with is_error and the rate-limit marker in its text:
\* ContextUpdate, Result and RateLimitError are emitted, and no Error.
RateLimitEvents == <<"contextUpdate", "result", "rateLimitError">>

ProcRateLimited(id, usage) ==
    /\ service.phase[id] = "run"
    /\ LET svc == [service EXCEPT !.phase[id] = "limited"]
           w1 == onContextUpdate(World(plugin, view, svc),
                                 Ev("contextUpdate", id, <<>>, 0, usage, TRUE, 0))
           w2 == onResult(w1, Ev("result", id, <<>>, 0, usage, TRUE, 0))
           w3 == onRateLimitError(w2, Ev("rateLimitError", id, <<>>, 0, NoUsage, TRUE, 0))
       IN  SetWorld(w3)
    /\ UNCHANGED <<inflight, ghost>>

\* compact-boundary record: Compact is emitted with its pre-compaction count.
ProcCompact(id, preTokens) ==
    /\ service.phase[id] = "run"
    /\ ghost.boundaries < MaxBoundaries
    /\ SetWorld(onCompact(W, CompactEv(id, preTokens)))
    /\ ghost' = [ghost EXCEPT !.boundaries = @ + 1]
    /\ UNCHANGED inflight

----------------------------------------------------------------------------

Kinds == {"enter", "button", "command"}

Models == {"sonnet", "opus"}

\* Turns, switching and the compaction the pending flag starts.
Next ==
    \/ \E kind \in Kinds : SendMessageBegin(kind)
    \/ \E c \in inflight : SendMessageResume(c)
    \/ \E id \in SIDs : SelectSession(id)
    \/ \E id \in Ids : ProcInit(id)
    \/ \E id \in SIDs : ProcToolUse(id)
    \/ \E id \in Ids : ProcText(id)
    \/ \E id \in SIDs, usage \in MainUsage : ProcResult(id, usage)
    \/ \E id \in Ids, code \in {0, 1} : ProcExit(id, code)

Spec == Init /\ [][Next]_vars

\* Token accounting: turns that report any of the usage counters of
\* UsageSet and stream no text.
NextAccounting ==
    \/ \E kind \in {"enter", "button"} : SendMessageBegin(kind)
    \/ \E c \in inflight : SendMessageResume(c)
    \/ \E id \in SIDs : SelectSession(id)
    \/ \E id \in Ids : ProcInit(id)
    \/ \E id \in SumIds : ProcText(id)
    \/ \E id \in SIDs, usage \in UsageSet : ProcResult(id, usage)
    \/ \E id \in Ids : ProcExit(id, 0)

SpecAccounting == Init /\ [][NextAccounting]_vars

\* Token accounting with the summary button.
NextSummary == NextAccounting \/ RunCompactManual

SpecSummary == Init /\ [][NextSummary]_vars

\* Usage: the turns of the two sessions and the usage they report; a
\* summarization run that starts is left pending.
NextUsage ==
    \/ \E kind \in {"enter", "button"} : SendMessageBegin(kind)
    \/ \E c \in inflight : SendMessageResume(c)
    \/ \E id \in SIDs : SelectSession(id)
    \/ \E id \in SIDs : ProcInit(id)
    \/ \E id \in SIDs, usage \in UsageSet : ProcResult(id, usage)
    \/ \E id \in SIDs : ProcExit(id, 0)

SpecUsage == Init /\ [][NextUsage]_vars

\* History: session 1 was loaded with the conversation of an earlier turn;
\* a further turn passes the threshold and a compaction follows.
InitHistory ==
    LET session == [NewSession(1) EXCEPT !.messages = TurnMessages(1),
                                         !.cliSessionId = CliToken(1),
                                         !.model = "sonnet",
                                         !.hasTokenStats = TRUE,
                                         !.tokenStats = TurnStats]
        p == saveSettings(SetSession(InitPlugin, 1, session))
        w == loadSession(World(p, InitView, InitService), 1)
    IN  /\ plugin = w.plugin
        /\ view = w.view
        /\ service = w.service
        /\ inflight = {}
        /\ ghost = InitGhost

NextHistory ==
    \/ SendMessageBegin("enter")
    \/ \E c \in inflight : SendMessageResume(c)
    \/ \E id \in SIDs : SelectSession(id)
    \/ \E id \in Ids : ProcInit(id)
    \/ \E id \in SumIds : ProcText(id)
    \/ \E id \in SIDs : ProcResult(id, Usage(60000, 8000, 0))
    \/ \E id \in Ids : ProcExit(id, 0)
    \/ \E id \in SumIds : ProcExit(id, 1)

SpecHistory == InitHistory /\ [][NextHistory]_vars

\* Compaction: the summary button, the model popup and summarization
\* runs that exit with an error.
NextCompaction ==
    \/ SendMessageBegin("enter")
    \/ \E c \in inflight : SendMessageResume(c)
    \/ \E id \in SIDs : SelectSession(id)
    \/ \E model \in Models : SelectModel(model)
    \/ RunCompactManual
    \/ \E id \in Ids : ProcInit(id)
    \/ \E id \in SumIds : ProcText(id)
    \/ \E id \in Ids, usage \in MainUsage : ProcResult(id, usage)
    \/ \E id \in Ids : ProcExit(id, 0)
    \/ \E id \in Ids : ProcExit(id, 1)

SpecCompaction == Init /\ [][NextCompaction]_vars

\* Turns whose assistant record carries several content blocks.
NextRecords ==
    \/ SendMessageBegin("enter")
    \/ \E c \in inflight : SendMessageResume(c)
    \/ \E id \in SIDs : SelectSession(id)
    \/ \E id \in SIDs : ProcInit(id)
    \/ \E id \in SIDs, blocks \in BlockLists : ProcRecord(id, blocks)
    \/ \E id \in SIDs : ProcResult(id, Usage(40000, 5200, 0))
    \/ \E id \in SIDs : ProcExit(id, 0)

SpecRecords == Init /\ [][NextRecords]_vars

\* The summarization process of a compaction answers with a record of
\* several content blocks.
NextSummaryText ==
    \/ SendMessageBegin("enter")
    \/ \E c \in inflight : SendMessageResume(c)
    \/ \E id \in SIDs : SelectSession(id)
    \/ RunCompactManual
    \/ \E id \in Ids : ProcInit(id)
    \/ \E id \in SumIds, blocks \in BlockLists : ProcRecord(id, blocks)
    \/ \E id \in Ids, code \in {0, 1} : ProcExit(id, code)

SpecSummaryText == InitHistory /\ [][NextSummaryText]_vars

\* Overlap: session 1 was loaded with the conversation of an earlier turn
\* and the summary button has started a compaction that has not completed.
InitOverlap ==
    LET session == [NewSession(1) EXCEPT !.messages = TurnMessages(1),
                                         !.cliSessionId = CliToken(1),
                                         !.model = "sonnet",
                                         !.hasTokenStats = TRUE,
                                         !.tokenStats = TurnStats]
        p == saveSettings(SetSession(InitPlugin, 1, session))
        w == startCompact(loadSession(World(p, InitView, InitService), 1), SumBase)
    IN  /\ plugin = w.plugin
        /\ view = w.view
        /\ service = w.service
        /\ inflight = {}
        /\ ghost = [InitGhost EXCEPT !.compactOf[SumBase] = 1]

NextOverlap ==
    \/ SendMessageBegin("command")
    \/ \E c \in inflight : SendMessageResume(c)
    \/ RunCompactManual
    \/ \E id \in Ids : ProcInit(id)
    \/ \E id \in SIDs : ProcResult(id, Usage(60000, 8000, 0))
    \/ \E id \in Ids : ProcExit(id, 0)

SpecOverlap == InitOverlap /\ [][NextOverlap]_vars

PreTokens == {68000, 72000}

\* Turns with compact-boundary records and rate-limited results.
NextEvents ==
    \/ SendMessageBegin("enter")
    \/ \E c \in inflight : SendMessageResume(c)
    \/ \E id \in SIDs : SelectSession(id)
    \/ \E id \in SIDs : ProcInit(id)
    \/ \E id \in SIDs, preTokens \in PreTokens : ProcCompact(id, preTokens)
    \/ \E id \in SIDs : ProcResult(id, Usage(40000, 5200, 0))
    \/ \E id \in SIDs : ProcRateLimited(id, Usage(40000, 5200, 0))
    \/ \E id \in SIDs, code \in {0, 1} : ProcExit(id, code)

SpecEvents == Init /\ [][NextEvents]_vars

----------------------------------------------------------------------------
(* Properties *)

StoredStats(p, id) ==
    IF HasSession(p, id) /\ FindSession(p, id).hasTokenStats
    THEN FindSession(p, id).tokenStats ELSE initialTokenStats

Percentage(stats) == calculateContextUsage(stats).percentage

Contains(seq, sub) ==
    \E i \in 1..(Len(seq) - Len(sub) + 1) : SubSeq(seq, i, i + Len(sub) - 1) = sub

\* The process of session id closes in this step (Complete is emitted).
Completes(id) == isRunning(service, id) /\ ~isRunning(service', id)

\* The complete handler starts the compaction run the pending flag asks for.
AutoCompactStarts ==
    /\ view.pendingAutoCompact
    /\ ~view'.pendingAutoCompact
    /\ view'.summaryCount = view.summaryCount + 1

\* What a turn answered in the background must leave in the session.
ExpectedTurn(t) ==
    IF Len(t.text) = 0 /\ Len(t.tools) = 0 THEN <<UserMsg(t.pid)>>
    ELSE <<UserMsg(t.pid), AssistantMsg(t.text, t.tools)>>

\* C1: a prompt sent in session A whose Result arrived while another
\* session was displayed is, once A's process has completed, in A's stored
\* message list, followed by the assistant reply (text and tool steps).
C1_BackgroundTurnStored ==
    \A a \in SIDs :
        (ghost.turn[a].away /\ ~InFlight(a))
            => Contains(SessionMessages(plugin, a), ExpectedTurn(ghost.turn[a]))

\* C2: when the process of the session that disabled the input completes,
\* the input is enabled again, whichever session is displayed (unless the
\* same Complete starts a compaction run, which disables it again).
C2_CompleteEnablesInput ==
    [][\A id \in SIDs :
          (ghost.disabledBy = id /\ Completes(id)
             /\ view'.summaryCount = view.summaryCount)
              => ~view'.isGenerating]_vars

\* C3: the view never calls the registry's sendMessage for a session id
\* that has a running process: when a send resumes after its await and
\* reaches the call, no process of its session is running.
C3_NoSendWhileRunning ==
    [][\A c \in inflight : (c \notin inflight') => ~isRunning(service, c.sid)]_vars

\* C4: a ContextUpdate of the displayed session with no compaction pending
\* raises the pending flag if and only if used / 80000 * 100 >= 85, that
\* is, if and only if used >= 68000.
C4_FlagIffAtLeast85Percent ==
    [][\A id \in SIDs, u \in UsageSet :
          (u.present /\ id = view.activeSessionId /\ ~view.pendingAutoCompact
             /\ ProcResult(id, u))
              => (view'.pendingAutoCompact
                    <=> 100 * (u.input + u.output)
                            >= AUTO_COMPACT_THRESHOLD_PERCENT * CONTEXT_LIMIT)]_vars

\* C5: every raising of the pending flag is answered by exactly one
\* compaction run: the flag is lowered only by starting one run, and no
\* run other than the summary button's starts without the flag.
C5_OneRunPerCrossing ==
    [][/\ (view.pendingAutoCompact /\ ~view'.pendingAutoCompact)
            => view'.summaryCount = view.summaryCount + 1
       /\ (view'.summaryCount # view.summaryCount /\ ~RunCompactManual)
            => AutoCompactStarts]_vars

\* C6: the compaction run a Complete event starts is applied to the
\* session whose own ContextUpdate raised the pending flag.
C6_CompactsTheFlaggedSession ==
    [][AutoCompactStarts => view.activeSessionId = ghost.flaggedBy]_vars

\* C7: the compaction run the pending flag asks for starts in response to
\* the Complete event of the turn whose ContextUpdate raised the flag, and
\* not while that turn is in flight.
C7_RunsAtCompleteOfFlaggedTurn ==
    [][AutoCompactStarts
          => (ghost.flaggedBy \in SIDs /\ Completes(ghost.flaggedBy))]_vars

\* C8: a ContextUpdate that does not decrease a session's input and output
\* counts does not decrease its percentage; the percentage is always in
\* 0..100 and is 100 once the used tokens reach 80000.
C8_PercentageMonotoneAndClamped ==
    [][\A id \in SIDs :
          LET old == StoredStats(plugin, id)
              new == StoredStats(plugin', id)
          IN  /\ Percentage(new) \in 0..100
              /\ (new.inputTokens + new.outputTokens >= CONTEXT_LIMIT)
                    => Percentage(new) = 100
              /\ (new.inputTokens >= old.inputTokens
                     /\ new.outputTokens >= old.outputTokens)
                    => Percentage(new) >= Percentage(old)]_vars

\* A session whose second update carried counts above the limit.
C8_Witness ==
    /\ ghost.updates[1] = 2
    /\ StoredStats(plugin, 1).inputTokens + StoredStats(plugin, 1).outputTokens
           > CONTEXT_LIMIT
    /\ Percentage(StoredStats(plugin, 1)) = 100

\* C9: after a ContextUpdate the session's input, output and cache-read
\* counts are the event's, whatever they were before, and handling the
\* same event once more leaves the same stats.
C9_AbsoluteOverwrite ==
    [][\A id \in SIDs, u \in UsageSet :
          (u.present /\ ProcResult(id, u))
              => LET st == StoredStats(plugin', id)
                     again == onContextUpdate(World(plugin', view', service'),
                                  Ev("contextUpdate", id, <<>>, 0, u, FALSE, 0))
                 IN  /\ st.inputTokens = u.input
                     /\ st.outputTokens = u.output
                     /\ st.cacheReadTokens = u.cache
                     /\ StoredStats(again.plugin, id) = st]_vars

\* Session 1, the only one that reported usage, holds the counts of its
\* second update, which are lower than those its first update recorded.
C9_Witness ==
    /\ ghost.updates[1] = 2
    /\ ghost.updates[2] = 0
    /\ StoredStats(plugin, 1) = ApplyUsage(initialTokenStats, Usage(40000, 5200, 0))
    /\ plugin.tokenHistory >= 68000

\* C10: a ContextUpdate that reports usage leaves the usage ledger alone
\* when its session is in the background and advances it when its session
\* is displayed and its total differs from the last recorded total.
C10_LedgerAdvancesIffForeground ==
    [][\A id \in SIDs, u \in UsageSet :
          (u.present /\ ProcResult(id, u))
              => /\ id # view.activeSessionId
                       => plugin'.tokenHistory = plugin.tokenHistory
                 /\ (id = view.activeSessionId
                        /\ u.input + u.output # view.lastRecordedTokens)
                       => plugin'.tokenHistory # plugin.tokenHistory]_vars


----------------------------------------------------------------------------
(* Compaction *)

\* The resume token of a session: the store's copy and the registry's.
Token(p, svc, id) == <<FindSession(p, id).cliSessionId, svc.cliSessionId[id]>>

\* The summarization run x ends and its complete listener is still attached.
CompactionEnds(x) == Completes(x) /\ view.compactRuns[x].complete

\* C11: when the compaction started for session S completes, the resume
\* token of S is cleared in the store and in the registry, and no other
\* session's resume token changes.
C11_ClearsTokenOfCompactedSession ==
    [][\A x \in SumIds :
          CompactionEnds(x) =>
              LET S == ghost.compactOf[x]
              IN  /\ Token(plugin', service', S) = <<NoCli, NoCli>>
                  /\ \A id \in SIDs \ {S} :
                         Token(plugin', service', id) = Token(plugin, service, id)]_vars

\* The send c resumes after its await and spawns its session's process.
Spawns(c) == c \in inflight /\ c \notin inflight' /\ ~isRunning(service, c.sid)

\* C12: the first prompt sent for session S after a compaction of S
\* completed carries the summary of that compaction, and no other prompt
\* carries a summary.
C12_NextPromptCarriesSummary ==
    [][\A c \in inflight :
          Spawns(c) =>
              service'.spawn[c.sid].prompt = Prompt(c.pid, ghost.owed[c.sid])]_vars

\* C13: when a compaction of session S completes, the token stats of S in
\* the store have input, output and cache-read tokens 0, a compaction count
\* one higher than before, and lastCompactPreTokens equal to the input +
\* output total S had before the reset.
C13_StoredStatsResetOnCompletion ==
    [][\A x \in SumIds :
          CompactionEnds(x) =>
              LET S == ghost.compactOf[x]
                  old == StoredStats(plugin, S)
                  new == StoredStats(plugin', S)
              IN  /\ new.inputTokens = 0
                  /\ new.outputTokens = 0
                  /\ new.cacheReadTokens = 0
                  /\ new.compactCount = old.compactCount + 1
                  /\ new.lastCompactPreTokens = old.inputTokens + old.outputTokens]_vars

\* What a failed compaction must leave alone: every resume token, the
\* stored and the displayed token stats, and the model lock.
SessionStateKept ==
    /\ \A id \in SIDs :
           /\ Token(plugin', service', id) = Token(plugin, service, id)
           /\ StoredStats(plugin', id) = StoredStats(plugin, id)
    /\ view'.tokenStats = view.tokenStats
    /\ view'.sessionStarted = view.sessionStarted

\* C14: when the summarization turn fails (its process exits with an error
\* code, or no summary text was obtained), the compaction is abandoned:
\* resume tokens, token stats, compaction count and model lock are
\* unchanged and the input is enabled again.
C14_FailedCompactionAbandoned ==
    [][\A x \in SumIds :
          /\ CompactionEnds(x)
          /\ ProcExit(x, 1) \/ Len(view.compactRuns[x].summary) = 0
          => SessionStateKept /\ ~view'.isGenerating]_vars

\* The displayed message list and the stored list of every session.
MessageLists(w) == <<w.view.messages, [id \in SIDs |-> SessionMessages(w.plugin, id)]>>

\* The compaction run x has completed.
Compacted(x) ==
    /\ view.compactRuns[x].complete
    /\ ~view.compactRuns[x].streaming
    /\ ~isRunning(service, x)

\* C15: compaction leaves the message lists unchanged: neither the start of
\* a compaction (summary button or automatic) nor its completion, with or
\* without a summary, changes the displayed list or a stored list.
C15_CompactionKeepsMessages ==
    [][/\ view.summaryCount < MaxCompacts =>
              MessageLists(runCompact(W)) = MessageLists(W)
       /\ \A x \in SumIds :
              CompactionEnds(x) =>
                  /\ view'.messages = view.messages
                  /\ \A id \in SIDs :
                         SessionMessages(plugin', id) = SessionMessages(plugin, id)]_vars

C15_Witness ==
    \E x \in SumIds :
        /\ Compacted(x)
        /\ Len(view.messages) > 1
        /\ SessionMessages(plugin, view.activeSessionId) = view.messages
        /\ Len(view.compactSummary.text) > 0

\* runCompact starts a summarization run and leaves the session alone.
StartsSummary(w) ==
    /\ w.view.summaryCount = view.summaryCount + 1
    /\ isRunning(w.service, NextSummaryId(W))
    /\ MessageLists(w) = MessageLists(W)
    /\ w.view.tokenStats = view.tokenStats
    /\ \A id \in SIDs :
           /\ Token(w.plugin, w.service, id) = Token(plugin, service, id)
           /\ StoredStats(w.plugin, id) = StoredStats(plugin, id)

\* The displayed list holds exactly one message, of role user.
SingleUserMessage == Len(view.messages) = 1 /\ view.messages[1].role = "user"

\* C16: running compaction is a no-op exactly when the message list is
\* empty; on any other list, a single user message included, it starts a
\* summarization run, and starting it leaves resume tokens, token stats
\* and messages untouched.
C16_NoOpOnlyOnEmptyList ==
    view.summaryCount < MaxCompacts =>
        IF Len(view.messages) = 0 THEN runCompact(W) = W
        ELSE StartsSummary(runCompact(W))

\* C16 as stated: on a list of exactly one user message compaction is a
\* no-op.
C16_NoOpOnSingleUserMessage ==
    view.summaryCount < MaxCompacts /\ SingleUserMessage => runCompact(W) = W

C16_Witness ==
    \E x \in SumIds :
        /\ isRunning(service, x)
        /\ view.compactRuns[x].streaming
        /\ ghost.compactOf[x] = view.activeSessionId
        /\ SingleUserMessage

\* C17: the model of a session is locked after its first message: every
\* send for the session passes the model recorded on the session.
C17_SendsPassRecordedModel ==
    [][\A c \in inflight :
          Spawns(c) /\ HasSession(plugin', c.sid) =>
              service'.spawn[c.sid].model = FindSession(plugin', c.sid).model]_vars

----------------------------------------------------------------------------
(* The session store of the plugin: main.ts *)

\* Sessions are created with fresh ids; the id is the rank of creation.
createNewSessionAppending(p, id) ==
    saveSettings([p EXCEPT !.sessions = Append(@, NewSession(id)),
                           !.currentSessionId = id])

createNewSession(p, id) ==
    saveSettings([p EXCEPT !.sessions = <<NewSession(id)>> \o @,
                           !.currentSessionId = id])

deleteSession(p, id) ==
    LET rest == SelectSeq(p.sessions, LAMBDA s : s.id # id)
        current == IF p.currentSessionId # id THEN p.currentSessionId
                   ELSE IF Len(rest) > 0 THEN rest[1].id ELSE NoSid
    IN  saveSettings([p EXCEPT !.sessions = rest, !.currentSessionId = current])

\* A data file without sessions reads as the empty list.
loadSettings(p) ==
    [p EXCEPT !.sessions = p.persisted.sessions,
              !.currentSessionId = p.persisted.currentSessionId,
              !.tokenHistory = p.persisted.tokenHistory]

\* The store after loadSettings read a data file of n sessions, the newest
\* first and current.
LoadedStore(n) ==
    LET sessions == [i \in 1..n |-> NewSession(n + 1 - i)]
        data == [sessions |-> sessions,
                 currentSessionId |-> IF n = 0 THEN NoSid ELSE n,
                 tokenHistory |-> 0]
    IN  loadSettings([sessions |-> <<>>, currentSessionId |-> NoSid,
                      defaultModel |-> "sonnet", tokenHistory |-> 0,
                      persisted |-> data])

\* The store starts from no data file or from one that is nearly full.
InitStore ==
    /\ \E n \in {0, MAX_SESSIONS - 1} :
           /\ plugin = LoadedStore(n)
           /\ ghost = [InitGhost EXCEPT !.fresh = n]
    /\ view = InitView
    /\ service = InitService
    /\ inflight = {}

StoreStep(p) ==
    /\ plugin' = p
    /\ UNCHANGED <<view, service, inflight>>

StoredIds == {plugin.sessions[i].id : i \in 1..Len(plugin.sessions)}

\* The sessions the user picks: the newest, the last one a save writes and
\* the oldest.
SwitchTargets ==
    {plugin.sessions[i].id :
        i \in {1, MAX_SESSIONS, Len(plugin.sessions)} \cap 1..Len(plugin.sessions)}

CreateNewSession ==
    /\ ghost.created < MaxCreates
    /\ StoreStep(createNewSession(plugin, ghost.fresh + 1))
    /\ ghost' = [ghost EXCEPT !.created = @ + 1, !.fresh = @ + 1]

SwitchToSession(id) ==
    /\ id # plugin.currentSessionId
    /\ StoreStep(switchToSession(plugin, id))
    /\ UNCHANGED ghost

DeleteSession(id) ==
    /\ ghost.edits < MaxEdits
    /\ StoreStep(deleteSession(plugin, id))
    /\ ghost' = [ghost EXCEPT !.edits = @ + 1]

UpdateCurrentSession ==
    /\ ghost.edits < MaxEdits
    /\ HasCurrentSession(plugin)
    /\ StoreStep(updateCurrentSession(plugin, TurnMessages(plugin.currentSessionId),
                                      CliToken(plugin.currentSessionId), TurnStats))
    /\ ghost' = [ghost EXCEPT !.edits = @ + 1]

SaveSettings ==
    /\ StoreStep(saveSettings(plugin))
    /\ UNCHANGED ghost

LoadSettings ==
    /\ StoreStep(loadSettings(plugin))
    /\ UNCHANGED ghost

NextStore ==
    \/ CreateNewSession
    \/ \E id \in SwitchTargets : SwitchToSession(id)
    \/ \E id \in StoredIds : DeleteSession(id)
    \/ UpdateCurrentSession
    \/ SaveSettings
    \/ LoadSettings

SpecStore == InitStore /\ [][NextStore]_vars

\* C18: after any sequence of createNewSession, switchToSession,
\* deleteSession, saveSettings and loadSettings, currentSessionId is the id
\* of a session of the list when the list is not empty, and null only when
\* the list is empty.
C18_CurrentSessionInList ==
    IF Len(plugin.sessions) = 0 THEN plugin.currentSessionId = NoSid
    ELSE plugin.currentSessionId \in StoredIds

\* The sessions of a list that were created after session s.
NewerThan(sessions, s) ==
    {i \in 1..Len(sessions) : sessions[i].id > s.id}

\* The sessions of a list among its n most recently created, in list order.
MostRecent(sessions, n) ==
    SelectSeq(sessions, LAMBDA s : Cardinality(NewerThan(sessions, s)) < n)

\* C19: the data written by a save holds at most 20 sessions, and they are
\* the 20 most recently created sessions of the list in memory.
C19_PersistedMostRecentTwenty ==
    /\ Len(plugin.persisted.sessions) <= MAX_SESSIONS
    /\ plugin.persisted.sessions = MostRecent(plugin.sessions, MAX_SESSIONS)

C19_Witness ==
    /\ Len(plugin.sessions) > MAX_SESSIONS
    /\ Len(plugin.persisted.sessions) = MAX_SESSIONS
    /\ plugin.persisted.sessions[1].id = ghost.fresh

\* Saving the plugin data and loading it again.
RoundTrip(p) == loadSettings(saveSettings(p))

\* The session comes back with its id, its messages in order, the tool
\* steps of each message and its token stats.
Reproduced(p, s) ==
    /\ HasSession(p, s.id)
    /\ LET t == FindSession(p, s.id)
       IN  /\ t.id = s.id
           /\ Len(t.messages) = Len(s.messages)
           /\ \A i \in 1..Len(s.messages) :
                  /\ t.messages[i].role = s.messages[i].role
                  /\ t.messages[i].content = s.messages[i].content
                  /\ t.messages[i].thinkingSteps = s.messages[i].thinkingSteps
           /\ t.hasTokenStats = s.hasTokenStats
           /\ t.tokenStats = s.tokenStats

----------------------------------------------------------------------------
(* Turns of tool steps and text *)

\* The result record of session id's turn is decoded and handled.
ResultHandled(id) ==
    /\ service.phase[id] = "run"
    /\ service'.phase[id] = "resulted"

Last(s) == s[Len(s)]

\* C21: a turn that produced tool steps and no text leaves, once its Result
\* is handled, an assistant message with empty text carrying those tool
\* steps at the end of the session's stored list, for the displayed session
\* and for a background session alike.
C21_ToolOnlyTurnStored ==
    [][\A id \in SIDs :
          (/\ ResultHandled(id)
           /\ HasSession(plugin, id)
           /\ Len(service.pendingText[id]) = 0
           /\ Len(service.pendingTools[id]) > 0)
              => /\ Len(SessionMessages(plugin', id)) > 0
                 /\ Last(SessionMessages(plugin', id))
                        = AssistantMsg(<<>>, service.pendingTools[id])]_vars

\* C22: in a turn of the displayed session whose record carries two
\* tool-use blocks followed by one text block, the blocks are handled in
\* that order, and once the Result is handled the session's stored list
\* ends with the assistant message of the turn: the reply text together
\* with exactly the two tool steps, in the order they were emitted.
C22_TwoToolsThenTextStored ==
    [][\A id \in SIDs :
          (/\ ResultHandled(id)
           /\ id = view.activeSessionId
           /\ ghost.blocks[id] = <<"tool_use", "tool_use", "text">>)
              => Last(SessionMessages(plugin', id))
                     = AssistantMsg(<<Chunk(id, 1)>>, <<Tool(id, 1), Tool(id, 2)>>)]_vars

----------------------------------------------------------------------------
(* Rate limits and compact boundaries *)

\* The result record of session id's turn is a rate-limit error and its
\* events are handled.
RateLimited(id) ==
    /\ service.phase[id] = "run"
    /\ service'.phase[id] = "limited"

Occurrences(seq, x) == Cardinality({i \in DOMAIN seq : seq[i] = x})

\* C23: a result record with is_error and the rate-limit marker leads to
\* exactly one rateLimitError event and no error event, and once its events
\* are handled the input of the view is enabled.
C23_RateLimitEnablesInput ==
    [][\A id \in SIDs :
          RateLimited(id)
              => /\ Occurrences(RateLimitEvents, "rateLimitError") = 1
                 /\ Occurrences(RateLimitEvents, "error") = 0
                 /\ ~view'.isGenerating]_vars

----------------------------------------------------------------------------
(* The view and the store *)

\* The token stats the store holds for a session.
SessionStats(p, id) ==
    IF FindSession(p, id).hasTokenStats THEN FindSession(p, id).tokenStats
    ELSE initialTokenStats

\* C24: whenever no event handler and no view command is running, the
\* message list of the view equals the list the store holds for the
\* displayed session, and the token stats of the view equal the stats the
\* store holds for it.
C24_ViewEqualsStore ==
    (inflight = {} /\ HasSession(plugin, view.activeSessionId))
        => /\ view.messages = SessionMessages(plugin, view.activeSessionId)
           /\ view.tokenStats = SessionStats(plugin, view.activeSessionId)

----------------------------------------------------------------------------
(* The summary of a compaction *)

\* C25: each Streaming event of the summarization run carries the text so
\* far, and the summary finishCompact stores when the run ends is the text
\* of the last Streaming event: no part of the summary occurs in it twice.
C25_SummaryIsLastStreamedText ==
    [][\A x \in SumIds :
          (/\ CompactionEnds(x)
           /\ HasCurrentSession(plugin)
           /\ Len(service.pendingText[x]) > 0)
              => view'.compactSummary.text = service.pendingText[x]]_vars

----------------------------------------------------------------------------
(* Stored replies *)

\* The number of assistant messages of a list that carry the text.
Replies(msgs, text) ==
    Cardinality({i \in DOMAIN msgs : msgs[i].role = "assistant" /\ msgs[i].content = text})

\* C26: when the Result of a turn of the displayed session that produced
\* reply text is handled, the stored list of that session gains exactly one
\* assistant message carrying the reply text, in the first turn after the
\* session was loaded and in later turns alike.
C26_ReplyStoredOnce ==
    [][\A id \in SIDs :
          (/\ ResultHandled(id)
           /\ id = view.activeSessionId
           /\ Len(service.pendingText[id]) > 0)
              => Replies(SessionMessages(plugin', id), service.pendingText[id])
                     = Replies(SessionMessages(plugin, id), service.pendingText[id]) + 1]_vars

----------------------------------------------------------------------------
(* Session isolation *)

\* The session whose process emitted a text chunk or a tool step, and the
\* session that was displayed when a prompt was submitted.
EmittedBy(x) == x \div 10
SubmittedIn(pid) == (pid - PromptBase) \div 10

\* The message holds nothing but a prompt submitted in session id, or text
\* and tool steps of events tagged with id.
OwnMessage(id, m) ==
    IF m.role = "user"
    THEN \A i \in DOMAIN m.content : SubmittedIn(m.content[i]) = id
    ELSE /\ \A i \in DOMAIN m.content : EmittedBy(m.content[i]) = id
         /\ \A i \in DOMAIN m.thinkingSteps : EmittedBy(m.thinkingSteps[i]) = id

\* C27: every message stored in a session holds only a prompt submitted
\* while that session was displayed, or text and tool steps carried by
\* events tagged with that session's id: the buffers of the view are never
\* saved into another session after a switch.
C27_StoredMessagesAreOwn ==
    \A id \in SIDs :
        HasSession(plugin, id)
            => \A i \in DOMAIN SessionMessages(plugin, id) :
                   OwnMessage(id, SessionMessages(plugin, id)[i])

----------------------------------------------------------------------------
(* Compact events *)

\* C28: each Compact event for a session raises the compaction count the
\* store holds for it by exactly one and sets lastCompactPreTokens to the
\* event's preTokens, whether or not the session is displayed and whether
\* or not the stats object of the view is the object of the store.
C28_CompactEventCountedOnce ==
    [][\A id \in SIDs, preTokens \in PreTokens :
          (ProcCompact(id, preTokens) /\ HasSession(plugin, id))
              => SessionStats(plugin', id).compactCount
                     = SessionStats(plugin, id).compactCount + 1
                 /\ SessionStats(plugin', id).lastCompactPreTokens = preTokens]_vars

----------------------------------------------------------------------------
(* Compaction runs in progress *)

\* The summarization sessions started by runCompact that have not completed.
RunsInProgress == {x \in SumIds : isRunning(service, x)}

\* C29: at most one compaction run is in progress at a time: while the
\* summarization session of a run has not completed, neither the summary
\* button nor the pending flag starts another one.
C29_OneCompactionAtATime == Cardinality(RunsInProgress) <= 1

----------------------------------------------------------------------------
(* The summary and the session it belongs to *)

\* C30: a prompt that is sent with a summary prepended is a prompt of the
\* session whose compaction produced that summary: after a switch to
\* another session no prompt of that session carries the summary.
C30_SummaryStaysInItsSession ==
    [][\A c \in inflight :
          (Spawns(c) /\ service'.spawn[c.sid].prompt.summary # <<>>)
              => service'.spawn[c.sid].prompt.summary = ghost.owed[c.sid]]_vars

============================================================================
